---- MODULE Spec2Model ----
(***************************************************************************)
(* TubeGenie backend: the content service (generate, history, get, delete, *)
(* toggle favorite, search, favorites), the AI service with its response   *)
(* normalizer, and the controller and error handler in front of them.      *)
(*                                                                         *)
(* Texts are sequences of character classes:                               *)
(*   "WS"    a whitespace character                                        *)
(*   "W"     a prose character that is none of the others                  *)
(*   "LB"    {            "RB"  }                                          *)
(*   "FENCE" ```          "JSON" the tag json right after a fence          *)
(*   a member token       one  "key": value  pair of a JSON object         *)
(***************************************************************************)
EXTENDS Integers, Sequences, FiniteSets, TLC

(***************************************************************************)
(* Bounds of the model.                                                    *)
(***************************************************************************)
MaxRecords == 2
MaxTime == 1
MaxProse == 1
MaxContent == 3

(***************************************************************************)
(* JavaScript values carried by a parsed reply.  kind is the JS type, elems *)
(* the elements of an array or the characters of a string.  The element     *)
(* "OBJ" of an array is a nested object, which the store cannot cast to a   *)
(* string.                                                                  *)
(***************************************************************************)
Arr(es) == [kind |-> "array", elems |-> es]
Str(cs) == [kind |-> "string", elems |-> cs]
Num(n) == [kind |-> "number", elems |-> <<n>>]
Undefined == [kind |-> "undefined", elems |-> <<>>]

requiredFields == <<"titles", "description", "tags", "thumbnailIdeas", "scriptOutline">>

\* JS truthiness: undefined, "" and 0 are falsy; every array (also []) and
\* every non-empty string (also a blank one) is truthy.
Truthy(v) ==
  CASE v.kind = "undefined" -> FALSE
    [] v.kind = "string" -> v.elems # <<>>
    [] v.kind = "number" -> v.elems # <<"0">>
    [] OTHER -> TRUE

IsArray(v) == v.kind = "array"

RECURSIVE TrimStart(_)
TrimStart(s) == IF s # <<>> /\ Head(s) = "WS" THEN TrimStart(Tail(s)) ELSE s

RECURSIVE TrimEnd(_)
TrimEnd(s) ==
  IF s # <<>> /\ s[Len(s)] = "WS" THEN TrimEnd(SubSeq(s, 1, Len(s) - 1)) ELSE s

\* String.prototype.trim
Trim(s) == TrimEnd(TrimStart(s))

(***************************************************************************)
(* The members a reply's JSON object may carry.                            *)
(***************************************************************************)
MemberOf ==
  [ tOk    |-> [key |-> "titles",         val |-> Arr(<<"T1", "T2">>)],
    tEmpty |-> [key |-> "titles",         val |-> Arr(<<>>)],
    tStr   |-> [key |-> "titles",         val |-> Str(<<"T1">>)],
    tObj   |-> [key |-> "titles",         val |-> Arr(<<"OBJ">>)],
    dOk    |-> [key |-> "description",    val |-> Str(<<"WS", "D", "WS">>)],
    dBlank |-> [key |-> "description",    val |-> Str(<<"WS">>)],
    dEmpty |-> [key |-> "description",    val |-> Str(<<>>)],
    dNum   |-> [key |-> "description",    val |-> Num("5")],
    gOk    |-> [key |-> "tags",           val |-> Arr(<<"#AI">>)],
    gEmpty |-> [key |-> "tags",           val |-> Arr(<<>>)],
    hOk    |-> [key |-> "thumbnailIdeas", val |-> Arr(<<"H1">>)],
    hZero  |-> [key |-> "thumbnailIdeas", val |-> Num("0")],
    sOk    |-> [key |-> "scriptOutline",  val |-> Arr(<<"S1">>)],
    sEmpty |-> [key |-> "scriptOutline",  val |-> Arr(<<>>)],
    xOk    |-> [key |-> "extra",          val |-> Str(<<"X">>)] ]

MemberTokens == DOMAIN MemberOf

(***************************************************************************)
(* JSON.parse of a candidate region: an object is { members }, whitespace  *)
(* allowed between them; a later member with the same key wins.  Anything  *)
(* else in the region is a syntax error.                                   *)
(***************************************************************************)
JsonValid(region) ==
  /\ Len(region) >= 2
  /\ region[1] = "LB"
  /\ region[Len(region)] = "RB"
  /\ \A i \in 2..(Len(region) - 1) : region[i] \in MemberTokens \cup {"WS"}

RECURSIVE LastWith(_, _, _)
LastWith(region, key, i) ==
  IF i = 0 THEN Undefined
  ELSE IF region[i] \in MemberTokens /\ MemberOf[region[i]].key = key
       THEN MemberOf[region[i]].val
       ELSE LastWith(region, key, i - 1)

\* parsed[field] of the object JSON.parse returns for the region
JsonGet(region, key) == LastWith(region, key, Len(region))

(***************************************************************************)
(* AIService.parseAIResponse                                               *)
(***************************************************************************)
\* replace(/^```(?:json)?\s*/i, '')
StripOpenFence(s) ==
  IF s # <<>> /\ Head(s) = "FENCE"
  THEN LET r == Tail(s) IN
       TrimStart(IF r # <<>> /\ Head(r) = "JSON" THEN Tail(r) ELSE r)
  ELSE s

\* replace(/\s*```$/, '')
StripCloseFence(s) ==
  IF s # <<>> /\ s[Len(s)] = "FENCE"
  THEN TrimEnd(SubSeq(s, 1, Len(s) - 1))
  ELSE s

cleanedResponse(response) == StripCloseFence(StripOpenFence(Trim(response)))

Positions(s, c) == {i \in 1..Len(s) : s[i] = c}
Min(S) == CHOOSE x \in S : \A y \in S : x <= y
Max(S) == CHOOSE x \in S : \A y \in S : x >= y

\* the cleaned text taken whole, without the search for the braces
jsonWhole(s) == s

\* cleanedResponse.match(/\{[\s\S]*\}/): from the first { to the last } after it;
\* <<>> stands for no match
jsonMatch(s) ==
  IF Positions(s, "LB") = {} THEN <<>>
  ELSE LET first == Min(Positions(s, "LB"))
           closes == {i \in Positions(s, "RB") : i > first}
       IN IF closes = {} THEN <<>> ELSE SubSeq(s, first, Max(closes))

missingFields(region) ==
  SelectSeq(requiredFields, LAMBDA f : ~Truthy(JsonGet(region, f)))

\* Array.isArray(v) without the check of its length
AnyArray(v) == IsArray(v)

NonEmptyArray(v) == IsArray(v) /\ Len(v.elems) # 0

NonBlankString(v) == v.kind = "string" /\ Trim(v.elems) # <<>>

ParseError(why, fields) ==
  [ok |-> FALSE, error |-> why, fields |-> fields,
   titles |-> Undefined, description |-> Undefined, tags |-> Undefined,
   thumbnailIdeas |-> Undefined, scriptOutline |-> Undefined]

\* The result of parseAIResponse: the five fields, or the error it throws.
\* error is the message of the inner throw, fields what the message names.
parseAIResponse(response) ==
  LET region == jsonMatch(cleanedResponse(response)) IN
  IF region = <<>> THEN ParseError("No valid JSON object found", <<>>)
  ELSE IF ~JsonValid(region) THEN ParseError("JSON syntax error", <<>>)
  ELSE IF Len(missingFields(region)) > 0
       THEN ParseError("missing required fields", missingFields(region))
  ELSE IF ~NonEmptyArray(JsonGet(region, "titles"))
       THEN ParseError("must include an array", <<"titles">>)
  ELSE IF ~NonEmptyArray(JsonGet(region, "tags"))
       THEN ParseError("must include an array", <<"tags">>)
  ELSE IF ~NonEmptyArray(JsonGet(region, "thumbnailIdeas"))
       THEN ParseError("must include an array", <<"thumbnailIdeas">>)
  ELSE IF ~NonEmptyArray(JsonGet(region, "scriptOutline"))
       THEN ParseError("must include an array", <<"scriptOutline">>)
  ELSE IF ~NonBlankString(JsonGet(region, "description"))
       THEN ParseError("must include a description string", <<"description">>)
  ELSE [ok |-> TRUE, error |-> "", fields |-> <<>>,
        titles |-> JsonGet(region, "titles"),
        description |-> JsonGet(region, "description"),
        tags |-> JsonGet(region, "tags"),
        thumbnailIdeas |-> JsonGet(region, "thumbnailIdeas"),
        scriptOutline |-> JsonGet(region, "scriptOutline")]

(***************************************************************************)
(* Configuration: the model registry (config/ai.config.ts).                *)
(***************************************************************************)
AVAILABLE_MODELS ==
  << [id |-> "tngtech/deepseek-r1t2-chimera:free", name |-> "DeepSeek R1T2 Chimera",
      isDefault |-> TRUE],
     [id |-> "z-ai/glm-4.5-air:free", name |-> "GLM 4.5 Air", isDefault |-> FALSE] >>

DEFAULT_MODEL ==
  LET d == SelectSeq(AVAILABLE_MODELS, LAMBDA m : m.isDefault)
  IN IF d # <<>> THEN d[1].id ELSE AVAILABLE_MODELS[1].id

\* AVAILABLE_MODELS.some(...) with a test every entry passes
isValidModelAny(modelId) == Len(AVAILABLE_MODELS) > 0

isValidModel(modelId) ==
  \E i \in 1..Len(AVAILABLE_MODELS) : AVAILABLE_MODELS[i].id = modelId

(***************************************************************************)
(* Inputs of the requests.                                                 *)
(***************************************************************************)
Users == {"userA", "userB"}
\* getUserId returns null: no resolvable identity
NoUser == ""
Callers == Users \cup {NoUser}

\* req.body.topic: absent, not a string, empty, blank, plain, padded
TopicInputs ==
  { Undefined, Num("5"), Str(<<>>), Str(<<"WS">>), Str(<<"c">>),
    Str(<<"WS", "c", "WS">>) }

\* req.body.model: absent, or a string (elems holds the id as one element)
ModelInputs ==
  { Undefined, Str(<<>>), Str(<<"tngtech/deepseek-r1t2-chimera:free">>),
    Str(<<"z-ai/glm-4.5-air:free">>), Str(<<"not-a-real-model">>) }

ModelId(model) == IF model.elems = <<>> THEN "" ELSE model.elems[1]

\* req.params.id: 0 is a string that is no well-formed ObjectId; the others are
\* well-formed, assigned by the store or not
BadId == 0
IdInputs == 0..MaxRecords

\* req.query.limit
LimitInputs == {"", "0", "1", "2"}

\* req.query.q: absent, blank, or one word
KeywordInputs ==
  { Undefined, Str(<<"WS">>), Str(<<"c">>), Str(<<"T1">>), Str(<<"H1">>),
    Str(<<"WS", "#AI">>) }

(***************************************************************************)
(* Replies of the external model service to one chat completion call.      *)
(***************************************************************************)
ValidBody == <<"tOk", "dOk", "gOk", "hOk", "sOk">>

ReplyTexts ==
  { <<"LB">> \o ValidBody \o <<"RB">>,
    <<"W", "WS", "FENCE", "JSON", "WS", "LB">> \o ValidBody \o <<"RB", "WS", "FENCE">>,
    <<"W", "LB", "W", "RB", "WS", "LB">> \o ValidBody \o <<"RB">>,
    <<"LB", "tOk", "dOk", "hOk", "sOk", "RB">>,
    <<"LB", "tEmpty", "dOk", "gOk", "hOk", "sOk", "RB">>,
    <<"LB", "tObj", "dOk", "gOk", "hOk", "sOk", "RB">>,
    <<"W", "W">> }

\* An error thrown to a catch block: name, HTTP status and code of the client
\* library's errors (0 and "" when absent), and what the message includes.
Err(name, status, code, words) ==
  [name |-> name, status |-> status, code |-> code, words |-> words]

PlainError(words) == Err("Error", 0, "", words)

ApiErrors ==
  { Err("BadRequestError", 400, "invalid_request_error", {}),
    Err("BadRequestError", 400, "", {"response_format"}),
    Err("RateLimitError", 429, "rate_limit_exceeded", {}),
    Err("RateLimitError", 429, "insufficient_quota", {}),
    Err("AuthenticationError", 401, "invalid_api_key", {}),
    Err("InternalServerError", 503, "", {}) }

NoErr == Err("", 0, "", {})

\* what openai.chat.completions.create resolves or rejects with
Outcome(kind, text, err) == [kind |-> kind, text |-> text, err |-> err]

ExtOutcomes ==
  {Outcome("text", t, NoErr) : t \in ReplyTexts}
    \cup {Outcome("text", <<>>, NoErr)}
    \cup {Outcome("error", <<>>, e) : e \in ApiErrors}

(***************************************************************************)
(* State.                                                                  *)
(*   store   the Content collection: a set of documents                    *)
(*   nextId  the next _id the store assigns (ids are never reused)         *)
(*   now     the clock when it was last read; createdAt is read from it    *)
(*   gen     the generate request in flight, if any, and where it is       *)
(*   tog     the toggle-favorite requests in flight, between their         *)
(*           findOne and their save                                        *)
(*   resp    the response being sent, if a handler has just produced one   *)
(*   norm    a reply text handed to the normalizer and its result          *)
(*   ana     documents handed to the analytics aggregator and its summary  *)
(*   route   NODE_ENV of the process, and the route and the middleware     *)
(*           through which the latest request came to the generate handler *)
(***************************************************************************)
VARIABLES store, nextId, now, gen, tog, resp, norm, ana, route

vars == <<store, nextId, now, gen, tog, resp, norm, ana, route>>

TogSlots == {1, 2}

(***************************************************************************)
(* models/Content.ts                                                       *)
(***************************************************************************)
\* the schema's default of isFavorite
isFavoriteDefault == FALSE

\* mongoose casts the elements of a [String] path; a nested object has no cast
Castable(content) ==
  \A f \in {"titles", "tags", "thumbnailIdeas", "scriptOutline"} :
    \A i \in 1..Len(content[f].elems) : content[f].elems[i] # "OBJ"

\* new Content({...}) as saved: the fields given, the defaults, _id, timestamps
NewContent(id, userId, topic, content, aiModel, t) ==
  [id |-> id, userId |-> userId, topic |-> topic,
   titles |-> content.titles, description |-> content.description,
   tags |-> content.tags, thumbnailIdeas |-> content.thumbnailIdeas,
   scriptOutline |-> content.scriptOutline,
   aiModel |-> aiModel, isFavorite |-> isFavoriteDefault, createdAt |-> t]

(***************************************************************************)
(* Store queries, on a collection S.                                       *)
(***************************************************************************)
\* Content.findOne({ _id: contentId }): the filter on userId left out
findOneAnyOwner(S, contentId, userId) == {r \in S : r.id = contentId}

\* Content.findOne({ _id: contentId, userId }): the matching documents (0 or 1)
findOne(S, contentId, userId) ==
  {r \in S : r.id = contentId /\ r.userId = userId}

\* Content.find({}) : the filter on userId left out
findAnyOwner(S, userId) == S

\* Content.find({ userId })
find(S, userId) == {r \in S : r.userId = userId}

\* .sort({ createdAt: 1 })
sortCreatedAsc(R) ==
  LET n == Cardinality(R) IN
  { o \in [1..n -> R] :
      /\ \A i, j \in 1..n : i # j => o[i] # o[j]
      /\ \A i \in 1..n : \A j \in 1..n : i < j => o[i].createdAt <= o[j].createdAt }

\* .sort({ createdAt: -1 }): every order of R that is descending in createdAt;
\* the store leaves the order of documents with equal createdAt open
sortCreatedDesc(R) ==
  LET n == Cardinality(R) IN
  { o \in [1..n -> R] :
      /\ \A i, j \in 1..n : i # j => o[i] # o[j]
      /\ \A i \in 1..n : \A j \in 1..n : i < j => o[i].createdAt >= o[j].createdAt }

\* .limit(n) of the store: 0 is no limit, a negative n counts as its absolute value
limit(o, n) ==
  LET k == IF n < 0 THEN 0 - n ELSE n IN
  IF k = 0 \/ k >= Len(o) THEN o ELSE SubSeq(o, 1, k)

(***************************************************************************)
(* Responses.  data are the documents the body carries, calls the number   *)
(* of calls made to the external model service for the request.            *)
(***************************************************************************)
Response(op, userId, id, status, error, data, calls) ==
  [op |-> op, userId |-> userId, id |-> id, status |-> status,
   error |-> error, data |-> data, calls |-> calls]

NoResp == Response("none", NoUser, BadId, 0, "", <<>>, 0)

Unauthenticated(op, id) ==
  Response(op, NoUser, id, 401, "User not authenticated", <<>>, 0)

(***************************************************************************)
(* middleware/error.middleware.ts: errorHandler, status and error of the   *)
(* body it sends for an error passed to next().                            *)
(***************************************************************************)
errorHandler(err) ==
  IF err.name = "ValidationError" THEN [status |-> 400, error |-> "Validation error"]
  ELSE IF err.name = "CastError" THEN [status |-> 400, error |-> "Invalid ID format"]
  ELSE IF (err.status # 0 \/ err.code # "")
          /\ err.code \in {"insufficient_quota", "rate_limit_exceeded"}
       THEN [status |-> 429, error |-> "AI service temporarily unavailable"]
  ELSE IF (err.status # 0 \/ err.code # "")
          /\ err.code \in {"invalid_api_key", "authentication_error"}
       THEN [status |-> 500, error |-> "AI service configuration error"]
  ELSE IF (err.status # 0 \/ err.code # "") /\ err.code = "invalid_request_error"
       THEN [status |-> 400, error |-> "Invalid request to AI service"]
  ELSE IF (err.status # 0 \/ err.code # "") /\ err.status \in {502, 503}
       THEN [status |-> 503, error |-> "AI service temporarily unavailable"]
  ELSE IF err.words \cap {"JSON", "parse"} # {}
       THEN [status |-> 500, error |-> "AI response processing error"]
  ELSE [status |-> 500, error |-> "Internal server error"]

Failed(op, userId, id, err, calls) ==
  Response(op, userId, id, errorHandler(err).status, errorHandler(err).error,
           <<>>, calls)

\* the rejection of such a query as an error without the name CastError
CastErrorUnnamed == Err("Error", 0, "", {})

\* a query whose _id is no well-formed ObjectId is rejected by the store
CastError == Err("CastError", 0, "", {})

(***************************************************************************)
(* services/content.service.ts and controllers/content.controller.ts:      *)
(* the handlers that are one store operation, as functions of the          *)
(* collection S they run on.                                               *)
(***************************************************************************)
\* ContentService.getContentById behind ContentController.getContentById and
\* the four single-record exports (op names the route)
getContentById(op, S, caller, id) ==
  IF caller = NoUser THEN Unauthenticated(op, id)
  ELSE IF id = BadId THEN Failed(op, caller, id, CastError, 0)
  ELSE LET content == findOne(S, id, caller) IN
       IF content = {}
       THEN Response(op, caller, id, 404, "Content not found", <<>>, 0)
       ELSE Response(op, caller, id, 200, "", <<CHOOSE r \in content : TRUE>>, 0)

ReadOps == {"get", "exportPDF", "exportCSV", "exportText", "exportMarkdown"}

\* Content.deleteOne({ _id: contentId }): the filter on userId left out
deleteOneAnyOwner(S, id, userId) == {r \in S : r.id # id}

\* Content.deleteMany({ userId }): the filter on _id left out
deleteMany(S, id, userId) == S \ find(S, userId)

\* ContentService.deleteContent: the collection after Content.deleteOne
deleteOne(S, id, userId) == S \ findOne(S, id, userId)

\* ContentController.deleteContent: the response
deleteContent(S, caller, id) ==
  IF caller = NoUser THEN Unauthenticated("delete", id)
  ELSE IF id = BadId THEN Failed("delete", caller, id, CastError, 0)
  ELSE IF Cardinality(findOne(S, id, caller)) > 0
       THEN Response("delete", caller, id, 200, "", <<>>, 0)
       ELSE Response("delete", caller, id, 404,
                     "Content not found or already deleted", <<>>, 0)

\* parseInt(req.query.limit) || 10
parseLimit(q) ==
  CASE q = "1" -> 1
    [] q = "2" -> 2
    [] OTHER -> 10

\* ContentService.getUserContent: the results the store may return
getUserContent(S, userId, n) ==
  {limit(o, n) : o \in sortCreatedDesc(find(S, userId))}

\* ContentController.getContentHistory: the responses it may send
getContentHistory(S, caller, q) ==
  IF caller = NoUser THEN {Unauthenticated("history", BadId)}
  ELSE {Response("history", caller, BadId, 200, "", d, 0) :
          d \in getUserContent(S, caller, parseLimit(q))}

\* ContentService.getFavorites behind ContentController.getFavorites
getFavorites(S, caller) ==
  IF caller = NoUser THEN {Unauthenticated("favorites", BadId)}
  ELSE {Response("favorites", caller, BadId, 200, "", o, 0) :
          o \in sortCreatedDesc({r \in find(S, caller) : r.isFavorite})}

\* the i flag of the search expression
lowerChar(c) ==
  CASE c = "C" -> "c"
    [] c = "A" -> "a"
    [] c = "I" -> "i"
    [] c = "T" -> "t"
    [] c = "Y" -> "y"
    [] c = "T1" -> "t1"
    [] c = "#AI" -> "#ai"
    [] OTHER -> c

lower(s) == [i \in 1..Len(s) |-> lowerChar(s[i])]

\* searchRegex.test(s) for a keyword without regular-expression operators
regexTest(keyword, s) ==
  \E i \in 1..(Len(s) - Len(keyword) + 1) :
    lower(SubSeq(s, i, i + Len(keyword) - 1)) = lower(keyword)

\* a query condition { path: searchRegex } on a string path or an array path
pathMatches(keyword, v) ==
  IF IsArray(v) THEN \E i \in 1..Len(v.elems) : regexTest(keyword, <<v.elems[i]>>)
  ELSE regexTest(keyword, v.elems)

\* ContentService.searchContent
searchContent(S, userId, keyword) ==
  IF keyword = <<>> \/ Trim(keyword) = <<>> THEN {<<>>}
  ELSE sortCreatedDesc(
         {r \in find(S, userId) :
            \/ regexTest(keyword, r.topic)
            \/ pathMatches(keyword, r.titles)
            \/ pathMatches(keyword, r.description)
            \/ pathMatches(keyword, r.tags)
            \/ pathMatches(keyword, r.scriptOutline)})

\* ContentController.searchContent
searchContentResp(S, caller, q) ==
  IF caller = NoUser THEN {Unauthenticated("search", BadId)}
  ELSE IF ~Truthy(q) \/ Trim(q.elems) = <<>>
       THEN {Response("search", caller, BadId, 400,
                      "Search keyword is required (use ?q=keyword)", <<>>, 0)}
  ELSE {Response("search", caller, BadId, 200, "", d, 0) :
          d \in searchContent(S, caller, Trim(q.elems))}

\* ContentController.exportAllCSV
exportAllCSV(S, caller) ==
  IF caller = NoUser THEN {Unauthenticated("exportAllCSV", BadId)}
  ELSE {IF d = <<>>
        THEN Response("exportAllCSV", caller, BadId, 404,
                      "No content found to export", <<>>, 0)
        ELSE Response("exportAllCSV", caller, BadId, 200, "", d, 0) :
          d \in getUserContent(S, caller, 1000)}

\* AnalyticsService.generateUserAnalytics behind ContentController.getAnalytics:
\* data are the documents the summary is computed from
getAnalytics(S, caller) ==
  IF caller = NoUser THEN {Unauthenticated("analytics", BadId)}
  ELSE {Response("analytics", caller, BadId, 200, "", o, 0) :
          o \in sortCreatedDesc(find(S, caller))}

(***************************************************************************)
(* Generate: ContentController.generateContent, ContentService             *)
(* .generateAndSaveContent and AIService.generateContent, one step per     *)
(* await.                                                                  *)
(***************************************************************************)
GenIdle ==
  [pc |-> "idle", userId |-> NoUser, topic |-> <<>>, model |-> "", calls |-> 0,
   content |-> ParseError("", <<>>)]

\* model || DEFAULT_MODEL
selectedModel(model) == IF Truthy(model) THEN ModelId(model) ELSE DEFAULT_MODEL

\* the check of the topic without the test of its trimmed length
topicInvalidUntrimmed(topic) == ~Truthy(topic) \/ topic.kind # "string"

\* the controller's check of req.body.topic
topicInvalid(topic) ==
  ~Truthy(topic) \/ topic.kind # "string" \/ Len(Trim(topic.elems)) = 0

\* the controller's check of req.body.model
modelInvalid(model) == Truthy(model) /\ ~isValidModel(ModelId(model))

\* The controller up to the first await: validation, identity, and the first
\* chat completion call of the AI service (with response_format).
generateContent(caller, topic, model) ==
  /\ resp = NoResp
  /\ gen.pc = "idle"
  /\ IF topicInvalid(topic)
     THEN /\ resp' = Response("generate", caller, BadId, 400,
                              "Topic is required and must be a non-empty string",
                              <<>>, 0)
          /\ gen' = gen
     ELSE IF modelInvalid(model)
     THEN /\ resp' = Response("generate", caller, BadId, 400, "Invalid AI model",
                              <<>>, 0)
          /\ gen' = gen
     ELSE IF caller = NoUser
     THEN /\ resp' = Unauthenticated("generate", BadId)
          /\ gen' = gen
     ELSE /\ nextId <= MaxRecords
          /\ gen' = [pc |-> "call1", userId |-> caller,
                     topic |-> Trim(topic.elems), model |-> selectedModel(model),
                     calls |-> 1, content |-> ParseError("", <<>>)]
          /\ resp' = NoResp
  /\ UNCHANGED <<store, nextId, now, tog, norm, ana>>

\* the fallback taken for every error of the first call
formatUnsupportedAny(err) == TRUE

\* formatError.message?.includes('response_format') ||
\* formatError.code === 'invalid_request_error'
formatUnsupported(err) ==
  "response_format" \in err.words \/ err.code = "invalid_request_error"

\* the Error parseAIResponse's catch throws: `Failed to parse AI response: ...`
parseFailure(result) ==
  PlainError({"parse"} \cup
             (IF result.error \in {"No valid JSON object found", "JSON syntax error"}
              THEN {"JSON"} ELSE {}))

\* the catch of AIService.generateContent with the error rethrown as caught
aiRethrow(error) == error

\* the catch of AIService.generateContent: what it throws for what it caught
aiCatch(error) ==
  IF "JSON" \in error.words THEN PlainError({"JSON"})
  ELSE IF error.code = "insufficient_quota" THEN PlainError({})
  ELSE IF error.status = 429 THEN PlainError({})
  ELSE PlainError(error.words)

GenFail(err) ==
  /\ resp' = Failed("generate", gen.userId, BadId, err, gen.calls)
  /\ gen' = GenIdle

\* A chat completion call settles.
GenReply(outcome) ==
  /\ resp = NoResp
  /\ gen.pc \in {"call1", "call2"}
  /\ IF outcome.kind = "error"
     THEN IF gen.pc = "call1" /\ formatUnsupported(outcome.err)
          THEN /\ gen' = [gen EXCEPT !.pc = "call2", !.calls = 2]
               /\ resp' = NoResp
          ELSE GenFail(aiCatch(outcome.err))
     ELSE IF outcome.text = <<>>
     THEN GenFail(aiCatch(PlainError({})))
     ELSE LET parsedContent == parseAIResponse(outcome.text) IN
          IF ~parsedContent.ok
          THEN GenFail(aiCatch(parseFailure(parsedContent)))
          ELSE /\ gen' = [gen EXCEPT !.pc = "save", !.content = parsedContent]
               /\ resp' = NoResp
  /\ UNCHANGED <<store, nextId, now, tog, norm, ana, route>>

\* await content.save() settles, and the controller answers.  t is the clock
\* when the document gets its timestamps.
GenPersist(dbUp, t) ==
  /\ resp = NoResp
  /\ gen.pc = "save"
  /\ t >= now
  /\ now' = t
  /\ IF ~Castable(gen.content)
     THEN /\ GenFail(Err("ValidationError", 0, "", {}))
          /\ UNCHANGED <<store, nextId>>
     ELSE IF ~dbUp
     THEN /\ GenFail(Err("MongoNetworkError", 0, "", {}))
          /\ UNCHANGED <<store, nextId>>
     ELSE LET content == NewContent(nextId, gen.userId, gen.topic, gen.content,
                                    gen.model, t) IN
          /\ store' = store \cup {content}
          /\ nextId' = nextId + 1
          /\ resp' = Response("generate", gen.userId, content.id, 201, "",
                              <<content>>, gen.calls)
          /\ gen' = GenIdle
  /\ UNCHANGED <<tog, norm, ana, route>>

(***************************************************************************)
(* The handlers that are one store operation.                              *)
(***************************************************************************)
\* GET /:id and GET /:id/export/{pdf,csv,text,markdown}
GetContentById(op, caller, id) ==
  /\ resp = NoResp
  /\ resp' = getContentById(op, store, caller, id)
  /\ UNCHANGED <<store, nextId, now, gen, tog, norm, ana, route>>

\* DELETE /:id
DeleteContent(caller, id) ==
  /\ resp = NoResp
  /\ resp' = deleteContent(store, caller, id)
  /\ store' = IF caller = NoUser \/ id = BadId THEN store
              ELSE deleteOne(store, id, caller)
  /\ UNCHANGED <<nextId, now, gen, tog, norm, ana, route>>

\* ContentController.getAvailableModels: the response, the same for every
\* request
getAvailableModels ==
  Response("models", NoUser, BadId, 200, "", AVAILABLE_MODELS, 0)

\* GET /models
GetAvailableModels ==
  /\ resp = NoResp
  /\ resp' = getAvailableModels
  /\ UNCHANGED <<store, nextId, now, gen, tog, norm, ana, route>>

\* GET /history
GetContentHistory(caller, q) ==
  /\ resp = NoResp
  /\ resp' \in getContentHistory(store, caller, q)
  /\ UNCHANGED <<store, nextId, now, gen, tog, norm, ana, route>>

\* GET /favorites
GetFavorites(caller) ==
  /\ resp = NoResp
  /\ resp' \in getFavorites(store, caller)
  /\ UNCHANGED <<store, nextId, now, gen, tog, norm, ana, route>>

\* GET /search
SearchContent(caller, q) ==
  /\ resp = NoResp
  /\ resp' \in searchContentResp(store, caller, q)
  /\ UNCHANGED <<store, nextId, now, gen, tog, norm, ana, route>>

\* GET /export/csv
ExportAllCSV(caller) ==
  /\ resp = NoResp
  /\ resp' \in exportAllCSV(store, caller)
  /\ UNCHANGED <<store, nextId, now, gen, tog, norm, ana, route>>

\* GET /analytics
GetAnalytics(caller) ==
  /\ resp = NoResp
  /\ resp' \in getAnalytics(store, caller)
  /\ UNCHANGED <<store, nextId, now, gen, tog, norm, ana, route>>

(***************************************************************************)
(* Toggle favorite: ContentController.toggleFavorite and ContentService    *)
(* .toggleFavorite, one step per await.                                    *)
(***************************************************************************)
TogIdle == [pc |-> "idle", id |-> BadId, userId |-> NoUser, isFavorite |-> FALSE]

\* ContentController.toggleFavorite when it ends without a save: the response;
\* NoResp when Content.findOne found the document
toggleFavoriteFind(S, caller, id) ==
  IF caller = NoUser THEN Unauthenticated("toggle", id)
  ELSE IF id = BadId THEN Failed("toggle", caller, id, CastError, 0)
  ELSE IF findOne(S, id, caller) = {}
       THEN Response("toggle", caller, id, 404, "Content not found", <<>>, 0)
       ELSE NoResp

\* content.isFavorite = true
flippedOn(isFavorite) == TRUE

\* !content.isFavorite
flipped(isFavorite) == ~isFavorite

\* an update of isFavorite without the filter on _id
saveFavoriteAll(S, id, isFavorite) == {[r EXCEPT !.isFavorite = isFavorite] : r \in S}

\* the update of isFavorite as an upsert: a document that is gone is inserted
\* again, with the path that was set
saveFavoriteUpsert(S, id, isFavorite) ==
  IF \E r \in S : r.id = id
  THEN {IF r.id = id THEN [r EXCEPT !.isFavorite = isFavorite] ELSE r : r \in S}
  ELSE S \cup {[NewContent(id, NoUser, <<>>, ParseError("", <<>>), "", 0)
                  EXCEPT !.isFavorite = isFavorite]}

\* content.save() of a document whose isFavorite was modified: the update of
\* that path of the stored document with the same _id
saveFavorite(S, id, isFavorite) ==
  {IF r.id = id THEN [r EXCEPT !.isFavorite = isFavorite] ELSE r : r \in S}

\* ContentService.toggleFavorite run without interleaving: the collection after
toggleFavorite(S, id, userId) ==
  LET content == findOne(S, id, userId) IN
  IF content = {} THEN S
  ELSE saveFavorite(S, id, flipped((CHOOSE r \in content : TRUE).isFavorite))

\* The controller up to the end of Content.findOne.
ToggleRead(s, caller, id) ==
  /\ resp = NoResp
  /\ tog[s].pc = "idle"
  /\ resp' = toggleFavoriteFind(store, caller, id)
  /\ tog' = IF resp' # NoResp THEN tog
            ELSE [tog EXCEPT ![s] =
                    [pc |-> "read", id |-> id, userId |-> caller,
                     isFavorite |->
                       (CHOOSE r \in findOne(store, id, caller) : TRUE).isFavorite]]
  /\ UNCHANGED <<store, nextId, now, gen, norm, ana, route>>

\* content.isFavorite = !content.isFavorite; await content.save(), which fails
\* when the document is gone; then the controller answers.
ToggleSave(s) ==
  /\ resp = NoResp
  /\ tog[s].pc = "read"
  /\ LET saved == saveFavorite(store, tog[s].id, flipped(tog[s].isFavorite)) IN
     IF \A r \in saved : r.id # tog[s].id
     THEN /\ resp' = Failed("toggle", tog[s].userId, tog[s].id,
                            Err("DocumentNotFoundError", 0, "", {}), 0)
          /\ store' = store
     ELSE /\ store' = saved
          /\ resp' = Response("toggle", tog[s].userId, tog[s].id, 200, "",
                              <<CHOOSE r \in store' : r.id = tog[s].id>>, 0)
  /\ tog' = [tog EXCEPT ![s] = TogIdle]
  /\ UNCHANGED <<nextId, now, gen, norm, ana, route>>

(***************************************************************************)
(* The normalizer on its own: a reply text built from a JSON object, the   *)
(* prose around it and an optional Markdown code fence, handed to          *)
(* parseAIResponse.                                                        *)
(***************************************************************************)
ProseChars == {"W", "WS", "LB", "RB"}

\* the texts of at most n prose characters
ProseUpTo(n) == UNION {[1..k -> ProseChars] : k \in 0..n}

Fences == {"none", "plain", "json"}

\* JSON objects a reply may carry: all five fields valid (in any order, with
\* other members and whitespace), or one of them missing or invalid
ObjectTexts ==
  { <<"LB">> \o ValidBody \o <<"RB">>,
    <<"LB", "WS", "sOk", "hOk", "xOk", "gOk", "WS", "dOk", "tOk", "WS", "RB">>,
    <<"LB", "tEmpty">> \o ValidBody \o <<"RB">>,
    <<"LB", "tOk", "dOk", "hOk", "sOk", "RB">>,
    <<"LB", "tOk", "dEmpty", "hOk", "sOk", "RB">>,
    <<"LB", "tOk", "dBlank", "gOk", "hOk", "sOk", "RB">>,
    <<"LB", "tOk", "dEmpty", "gOk", "hOk", "sOk", "RB">>,
    <<"LB", "tOk", "dNum", "gOk", "hOk", "sOk", "RB">>,
    <<"LB", "tStr", "dOk", "gOk", "hOk", "sOk", "RB">>,
    <<"LB", "tOk", "dOk", "gOk", "hZero", "sEmpty", "RB">>,
    <<"LB", "tOk", "dOk", "gEmpty", "hOk", "sEmpty", "RB">> }

\* the object between the lines of a code fence, or bare
Fenced(fence, body) ==
  CASE fence = "plain" -> <<"FENCE", "WS">> \o body \o <<"WS", "FENCE">>
    [] fence = "json" -> <<"FENCE", "JSON", "WS">> \o body \o <<"WS", "FENCE">>
    [] OTHER -> body

NormInput(before, fence, body, after) ==
  [text |-> before \o Fenced(fence, body) \o after, body |-> body,
   before |-> before, after |-> after, done |-> FALSE,
   result |-> ParseError("", <<>>)]

NormIdle == NormInput(<<>>, "none", <<>>, <<>>)

\* parseAIResponse(norm.text)
Normalize ==
  /\ ~norm.done
  /\ norm' = [norm EXCEPT !.done = TRUE, !.result = parseAIResponse(norm.text)]
  /\ UNCHANGED <<store, nextId, now, gen, tog, resp, ana, route>>

(***************************************************************************)
(* services/analytics.service.ts.  Times are in hours since an epoch at    *)
(* midnight UTC; a date is the number of its UTC calendar day.  In the     *)
(* documents handed to the aggregator, topics and tags are spelled as      *)
(* sequences of characters.                                                *)
(***************************************************************************)
HoursPerDay == 24
TimelineDays == 30
WeekDays == 7
MonthDays == 30
TopTopicsLimit == 10
RecentLimit == 10
TopTagsLimit == 20

\* date.toISOString().split('T')[0]
DateOf(t) == t \div HoursPerDay

\* the keys of a Map filled from s, in insertion order
RECURSIVE KeysInOrder(_)
KeysInOrder(s) ==
  IF s = <<>> THEN <<>>
  ELSE LET r == KeysInOrder(SubSeq(s, 1, Len(s) - 1)) IN
       IF \E i \in 1..Len(r) : r[i] = s[Len(s)] THEN r ELSE Append(r, s[Len(s)])

Occurrences(s, x) == Cardinality({i \in 1..Len(s) : s[i] = x})

\* .sort((a, b) => b.count - a.count): descending by count, stable
SortByCountDesc(e) ==
  LET n == Len(e)
      rank(i) == 1 + Cardinality({j \in 1..n :
                       \/ e[j].count > e[i].count
                       \/ e[j].count = e[i].count /\ j < i})
  IN [k \in 1..n |-> e[CHOOSE i \in 1..n : rank(i) = k]]

\* .slice(0, n)
slice(s, n) == IF Len(s) <= n THEN s ELSE SubSeq(s, 1, n)

\* Math.round(num / den) for num >= 0, den > 0, where the double that num / den
\* stands for is on the same side of every half as the quotient itself
RoundDiv(num, den) == (2 * num + den) \div (2 * den)

\* the fractions count / total for which the double (count / total) * 100 is
\* below the quotient, which ends in .5: a product that ends in .5 has
\* count / total = n / 8, n / 40 or n / 200 in lowest terms, and of these the
\* doubles of 23 / 40, 29 / 200, 57 / 200 and 113 / 200 give 57.49999999999999,
\* 14.499999999999998, 28.499999999999996 and 56.49999999999999
PercentBelowHalf == { <<23, 40>>, <<29, 200>>, <<57, 200>>, <<113, 200>> }

\* Math.round((count / total) * 100), the quotient and the product computed in
\* doubles, for 0 < count <= total
roundPercent(count, total) ==
  IF \E f \in PercentBelowHalf : count * f[2] = f[1] * total
  THEN (count * 100) \div total
  ELSE RoundDiv(count * 100, total)

\* Math.ceil(num / den) for den > 0
CeilDiv(num, den) ==
  IF num >= 0 THEN (num + den - 1) \div den ELSE 0 - ((0 - num) \div den)

\* getModelById: the registry entries with this id
getModelById(modelId) == SelectSeq(AVAILABLE_MODELS, LAMBDA m : m.id = modelId)

\* modelId.includes(word), for the ids documents carry
includes(modelId, word) ==
  <<modelId, word>> \in { <<"tngtech/deepseek-r1t2-chimera:free", "deepseek">>,
                          <<"deepseek/deepseek-chat-v3.1:free", "deepseek">>,
                          <<"google/gemini-2.0-flash-exp:free", "gemini">>,
                          <<"z-ai/glm-4.5-air:free", "glm">> }

\* modelId.split('/').pop()?.split(':')[0] || modelId, for the ids documents
\* carry
lastSegment(modelId) ==
  CASE modelId = "tngtech/deepseek-r1t2-chimera:free" -> "deepseek-r1t2-chimera"
    [] modelId = "deepseek/deepseek-chat-v3.1:free" -> "deepseek-chat-v3.1"
    [] modelId = "google/gemini-2.0-flash-exp:free" -> "gemini-2.0-flash-exp"
    [] modelId = "z-ai/glm-4.5-air:free" -> "glm-4.5-air"
    [] OTHER -> modelId

\* AnalyticsService.extractModelName
extractModelName(modelId) ==
  IF getModelById(modelId) # <<>> THEN getModelById(modelId)[1].name
  ELSE IF includes(modelId, "deepseek") THEN "DeepSeek"
  ELSE IF includes(modelId, "gemini") THEN "Gemini"
  ELSE IF includes(modelId, "glm") THEN "GLM"
  ELSE lastSegment(modelId)

\* AnalyticsService.calculateContentByModel
calculateContentByModel(content) ==
  LET ids == [i \in 1..Len(content) |-> content[i].aiModel]
      keys == KeysInOrder(ids)
      total == Len(content)
  IN SortByCountDesc(
       [k \in 1..Len(keys) |->
          [modelId |-> keys[k], modelName |-> extractModelName(keys[k]),
           count |-> Occurrences(ids, keys[k]),
           percentage |-> roundPercent(Occurrences(ids, keys[k]), total)]])

\* calculateTopTopics without toLowerCase
calculateTopTopicsCased(content) ==
  LET topics == [i \in 1..Len(content) |-> content[i].topic]
      keys == KeysInOrder(topics)
  IN slice(SortByCountDesc(
       [k \in 1..Len(keys) |->
          [topic |-> keys[k], count |-> Occurrences(topics, keys[k]),
           lastGenerated |->
             Max({content[i].createdAt : i \in {j \in 1..Len(content) :
                                                  topics[j] = keys[k]}})]]),
           TopTopicsLimit)

\* AnalyticsService.calculateTopTopics
calculateTopTopics(content) ==
  LET topics == [i \in 1..Len(content) |-> lower(content[i].topic)]
      keys == KeysInOrder(topics)
  IN slice(SortByCountDesc(
       [k \in 1..Len(keys) |->
          [topic |-> keys[k], count |-> Occurrences(topics, keys[k]),
           lastGenerated |->
             Max({content[i].createdAt : i \in {j \in 1..Len(content) :
                                                  topics[j] = keys[k]}})]]),
           TopTopicsLimit)

\* the elements of a set of numbers in ascending order
RECURSIVE Ascending(_)
Ascending(S) == IF S = {} THEN <<>> ELSE <<Min(S)>> \o Ascending(S \ {Min(S)})

\* calculateTimeline counting only on the 30 dates it has initialised
calculateTimelineInitialized(content, t) ==
  LET thirtyDaysAgo == t - TimelineDays * HoursPerDay
      initialized == {DateOf(t - i * HoursPerDay) : i \in 0..(TimelineDays - 1)}
      counted == {i \in 1..Len(content) : content[i].createdAt >= thirtyDaysAgo}
      dates == Ascending(initialized)
  IN [k \in 1..Len(dates) |->
        [date |-> dates[k],
         count |-> Cardinality({i \in counted :
                                  DateOf(content[i].createdAt) = dates[k]})]]

\* AnalyticsService.calculateTimeline, with the clock at t
calculateTimeline(content, t) ==
  LET thirtyDaysAgo == t - TimelineDays * HoursPerDay
      initialized == {DateOf(t - i * HoursPerDay) : i \in 0..(TimelineDays - 1)}
      counted == {i \in 1..Len(content) : content[i].createdAt >= thirtyDaysAgo}
      dates == Ascending(initialized \cup {DateOf(content[i].createdAt) : i \in counted})
  IN [k \in 1..Len(dates) |->
        [date |-> dates[k],
         count |-> Cardinality({i \in counted :
                                  DateOf(content[i].createdAt) = dates[k]})]]

\* AnalyticsService.getRecentActivity
getRecentActivity(content) ==
  LET recent == slice(content, RecentLimit) IN
  [i \in 1..Len(recent) |->
     [contentId |-> recent[i].id, topic |-> recent[i].topic,
      createdAt |-> recent[i].createdAt,
      aiModel |-> extractModelName(recent[i].aiModel),
      isFavorite |-> recent[i].isFavorite]]

\* calculateUsageStats with the weeks cut off (Math.floor) instead of rounded up
calculateUsageStatsFloor(content, t) ==
  LET weekAgo == t - WeekDays * HoursPerDay
      monthAgo == t - MonthDays * HoursPerDay
      allTime == Len(content)
      firstDate == IF content # <<>> THEN content[Len(content)].createdAt ELSE t
      weeksSinceFirst ==
        Max({1, (t - firstDate) \div (WeekDays * HoursPerDay)})
  IN [thisWeek |-> Cardinality({i \in 1..Len(content) :
                                  content[i].createdAt >= weekAgo}),
      thisMonth |-> Cardinality({i \in 1..Len(content) :
                                   content[i].createdAt >= monthAgo}),
      allTime |-> allTime,
      averagePerWeek |-> RoundDiv(allTime * 10, weeksSinceFirst)]

\* AnalyticsService.calculateUsageStats, with the clock at t; averagePerWeek is
\* in tenths
calculateUsageStats(content, t) ==
  LET weekAgo == t - WeekDays * HoursPerDay
      monthAgo == t - MonthDays * HoursPerDay
      allTime == Len(content)
      firstDate == IF content # <<>> THEN content[Len(content)].createdAt ELSE t
      weeksSinceFirst ==
        Max({1, CeilDiv(t - firstDate, WeekDays * HoursPerDay)})
  IN [thisWeek |-> Cardinality({i \in 1..Len(content) :
                                  content[i].createdAt >= weekAgo}),
      thisMonth |-> Cardinality({i \in 1..Len(content) :
                                   content[i].createdAt >= monthAgo}),
      allTime |-> allTime,
      averagePerWeek |-> RoundDiv(allTime * 10, weeksSinceFirst)]

\* normalizedTag without the removal of the leading '#'
normalizedTagKeepHash(tag) == lower(tag)

\* tag.toLowerCase().replace(/^#/, '')
normalizedTag(tag) ==
  IF lower(tag) # <<>> /\ Head(lower(tag)) = "#" THEN Tail(lower(tag)) ELSE lower(tag)

\* the tags of all documents, in the order forEach visits them
RECURSIVE AllTags(_)
AllTags(content) ==
  IF content = <<>> THEN <<>>
  ELSE Head(content).tags.elems \o AllTags(Tail(content))

\* AnalyticsService.generateTagCloud
generateTagCloud(content) ==
  LET tags == [i \in 1..Len(AllTags(content)) |-> normalizedTag(AllTags(content)[i])]
      keys == KeysInOrder(tags)
  IN slice(SortByCountDesc(
       [k \in 1..Len(keys) |-> [tag |-> keys[k], count |-> Occurrences(tags, keys[k])]]),
           TopTagsLimit)

\* AnalyticsService.getEmptyAnalytics
getEmptyAnalytics ==
  [totalContent |-> 0, totalFavorites |-> 0, contentByModel |-> <<>>,
   topTopics |-> <<>>, generationTimeline |-> <<>>, recentActivity |-> <<>>,
   usageStats |-> [thisWeek |-> 0, thisMonth |-> 0, allTime |-> 0,
                   averagePerWeek |-> 0],
   tagCloud |-> <<>>]

\* generateUserAnalytics past the check for no content; t is the clock when
\* calculateTimeline reads it, u when calculateUsageStats reads it
computeAnalytics(allContent, t, u) ==
  [totalContent |-> Len(allContent),
   totalFavorites |-> Cardinality({i \in 1..Len(allContent) : allContent[i].isFavorite}),
   contentByModel |-> calculateContentByModel(allContent),
   topTopics |-> calculateTopTopics(allContent),
   generationTimeline |-> calculateTimeline(allContent, t),
   recentActivity |-> getRecentActivity(allContent),
   usageStats |-> calculateUsageStats(allContent, u),
   tagCloud |-> generateTagCloud(allContent)]

\* generateUserAnalytics without the early return for no content
generateUserAnalyticsAlways(allContent, t, u) == computeAnalytics(allContent, t, u)

\* AnalyticsService.generateUserAnalytics on the documents the store returned,
\* with the clock at t and then at u
generateUserAnalytics(allContent, t, u) ==
  IF Len(allContent) = 0 THEN getEmptyAnalytics ELSE computeAnalytics(allContent, t, u)

(***************************************************************************)
(* The aggregator on its own: the documents of one owner as the store      *)
(* returns them, newest first, and the clock.                              *)
(***************************************************************************)
\* 21 tags that differ
ManyTags ==
  << <<"b">>, <<"d">>, <<"e">>, <<"f">>, <<"g">>, <<"h">>, <<"j">>, <<"k">>,
     <<"l">>, <<"m">>, <<"n">>, <<"o">>, <<"p">>, <<"q">>, <<"r">>, <<"s">>,
     <<"u">>, <<"v">>, <<"w">>, <<"x">>, <<"y">> >>

\* aiModel, topic, tags and isFavorite of the documents
DocKinds ==
  { [aiModel |-> "tngtech/deepseek-r1t2-chimera:free",
     topic |-> <<"C", "a", "t", "s">>,
     tags |-> Arr(<< <<"#", "A", "I">>, <<"a", "i">> >>), isFavorite |-> FALSE],
    [aiModel |-> "tngtech/deepseek-r1t2-chimera:free",
     topic |-> <<"c", "a", "t", "s">>,
     tags |-> Arr(<< <<"A", "I">>, <<"#", "#", "a", "i">>, <<"T", "e", "c", "h">> >>),
     isFavorite |-> TRUE],
    [aiModel |-> "z-ai/glm-4.5-air:free", topic |-> <<"d", "o", "g", "s">>,
     tags |-> Arr(ManyTags), isFavorite |-> FALSE],
    [aiModel |-> "google/gemini-2.0-flash-exp:free", topic |-> <<"c", "a", "t", "s">>,
     tags |-> Arr(<< <<"y">>, <<"#", "Y">> >>), isFavorite |-> FALSE] }

\* createdAt: day 1 at 06:00 and at 18:00, day 30 at 20:00, day 31 at 00:00 and
\* at 06:00
CreatedInputs == {30, 42, 740, 744, 750}

\* the clock: day 31 at 06:00 and at 12:00
ClockInputs == {750, 756}

DocInputs ==
  {[id |-> 0, userId |-> "userA", topic |-> k.topic, aiModel |-> k.aiModel,
    tags |-> k.tags, isFavorite |-> k.isFavorite, createdAt |-> c] :
     k \in DocKinds, c \in CreatedInputs}

\* what find({ userId }).sort({ createdAt: -1 }) may return when the clock is t
ContentInputs(t) ==
  UNION {{content \in [1..n -> DocInputs] :
            /\ \A i \in 1..n : content[i].createdAt <= t
            /\ \A i \in 1..n : \A j \in 1..n :
                 i < j => content[i].createdAt >= content[j].createdAt} :
         n \in 0..MaxContent}

\* 11 topics that differ
ManyTopics == [i \in 1..11 |-> <<"t", ManyTags[i][1]>>]

\* 11 documents with the 11 topics, the first `recent` of them of day 31 and the
\* others of day 1; with dup > 0 a 12th, older document whose topic is topic
\* dup in upper case
LongContent(recent, dup) ==
  LET doc(topic, c) ==
        [id |-> 0, userId |-> "userA", topic |-> topic,
         aiModel |-> "z-ai/glm-4.5-air:free", tags |-> Arr(<< <<"a", "i">> >>),
         isFavorite |-> FALSE, createdAt |-> c]
      first == [i \in 1..11 |-> doc(ManyTopics[i], IF i <= recent THEN 744 ELSE 42)]
  IN IF dup = 0 THEN first
     ELSE Append(first, doc(<<"T", ManyTags[dup][1]>>, 30))

LongInputs == {LongContent(recent, dup) : recent \in {0, 3, 11}, dup \in 0..11}

\* a documents of one model, newer, and b of another
MixContent(a, b) ==
  [i \in 1..(a + b) |->
     [id |-> 0, userId |-> "userA", topic |-> <<"c", "a", "t", "s">>,
      aiModel |-> IF i <= a THEN "tngtech/deepseek-r1t2-chimera:free"
                  ELSE "google/gemini-2.0-flash-exp:free",
      tags |-> Arr(<< <<"a", "i">> >>), isFavorite |-> FALSE,
      createdAt |-> IF i <= a THEN 744 ELSE 42]]

\* numbers of documents of the two models: a fourth, a half, and shares whose
\* percentage ends in .5
MixInputs ==
  {MixContent(m[1], m[2]) :
     m \in { <<1, 3>>, <<20, 20>>, <<5, 3>>, <<3, 5>>, <<23, 17>>, <<17, 23>> }}

\* now is the clock when calculateTimeline reads it, later when
\* calculateUsageStats reads it
AnaInput(content, t, u) ==
  [content |-> content, now |-> t, later |-> u, done |-> FALSE,
   summary |-> getEmptyAnalytics, readError |-> NoErr, thrown |-> NoErr]

\* errors Content.find may reject with
StoreReadErrors ==
  { Err("MongoNetworkError", 0, "", {"connection closed"}),
    Err("MongoServerSelectionError", 0, "", {"timed out"}),
    Err("MongoServerError", 0, "13", {"not authorized"}) }

\* the read of the documents rejects with error e
AnaFailing(e, t) == [AnaInput(<<>>, t, t) EXCEPT !.readError = e]

AnaIdle == AnaInput(<<>>, 0, 0)

\* the catch of generateUserAnalytics with the error rethrown as caught
analyticsRethrow(error) == error

\* the catch of generateUserAnalytics: what it throws for what it caught
analyticsCatch(error) == PlainError({"Failed to generate analytics"})

\* generateUserAnalytics(userId) once the store has returned ana.content or
\* rejected with ana.readError
Analyze ==
  /\ ~ana.done
  /\ ana' = IF ana.readError # NoErr
            THEN [ana EXCEPT !.done = TRUE, !.thrown = analyticsCatch(ana.readError)]
            ELSE [ana EXCEPT !.done = TRUE,
                             !.summary = generateUserAnalytics(ana.content, ana.now,
                                                              ana.later)]
  /\ UNCHANGED <<store, nextId, now, gen, tog, resp, norm, route>>

(***************************************************************************)
(* routes/content.routes.ts: the two routes to the generate handler.       *)
(***************************************************************************)
\* process.env.NODE_ENV; "" when it is not set
EnvInputs == {"development", "production", "test", ""}

\* no request has come to the generate handler
RouteIdle(env) == [env |-> env, path |-> "", passed |-> {}]

\* the identity the test route puts into the request
TestUserId == "test-user-123"

\* the test route registered whatever NODE_ENV is
testRouteAlways == TRUE

\* the condition under which the test route is registered
testRouteRegistered == route.env = "development"

\* a request answered by a middleware or by the 404 handler, before any handler
Stopped(by, status, error) == Response(by, NoUser, BadId, status, error, <<>>, 0)

\* requireAuth() for a request without a session: the library answers, with a
\* redirect to the sign-in page or with 401
RequireAuthStatus == {302, 401}

\* POST /generate/test
PostGenerateTest(caller, topic, model) ==
  IF testRouteRegistered
  THEN /\ generateContent(TestUserId, topic, model)
       /\ route' = [route EXCEPT !.path = "/generate/test", !.passed = {}]
  ELSE /\ resp = NoResp
       /\ IF caller = NoUser
          THEN \E status \in RequireAuthStatus :
                 resp' = Stopped("authMiddleware", status, "")
          ELSE resp' = Stopped("notFoundHandler", 404, "Route not found")
       /\ UNCHANGED <<store, nextId, now, gen, tog, norm, ana, route>>

\* the limiters of the routes
Limiters == {"aiGenerationLimiter", "readLimiter", "deleteLimiter"}

\* what a limiter answers, with status 429, to a request over its limit
limiterMessage(limiter) ==
  CASE limiter = "aiGenerationLimiter" ->
         "AI generation limit reached. Please try again later."
    [] limiter = "readLimiter" ->
         "Too many read requests, please try again later."
    [] limiter = "deleteLimiter" ->
         "Too many delete requests, please try again later."

\* a route registered after router.use(authMiddleware) with a limiter in front
\* of its handler: a request without a session is answered by authMiddleware,
\* a request over the limit by the limiter, and only the others enter the
\* handler; allowed is whether the request is within the limit
Routed(caller, limiter, allowed, handler) ==
  IF caller = NoUser
  THEN /\ resp = NoResp
       /\ \E status \in RequireAuthStatus :
            resp' = Stopped("authMiddleware", status, "")
       /\ UNCHANGED <<store, nextId, now, gen, tog, norm, ana, route>>
  ELSE IF ~allowed
  THEN /\ resp = NoResp
       /\ resp' = Stopped(limiter, 429, limiterMessage(limiter))
       /\ UNCHANGED <<store, nextId, now, gen, tog, norm, ana, route>>
  ELSE handler

\* POST /generate
PostGenerate(caller, topic, model, allowed) ==
  Routed(caller, "aiGenerationLimiter", allowed,
         /\ generateContent(caller, topic, model)
         /\ route' = [route EXCEPT !.path = "/generate",
                                   !.passed = {"authMiddleware", "aiGenerationLimiter"}])

\* GET /analytics
GetAnalyticsRoute(caller, allowed) ==
  Routed(caller, "readLimiter", allowed, GetAnalytics(caller))

\* GET /models
GetModelsRoute(caller, allowed) ==
  Routed(caller, "readLimiter", allowed, GetAvailableModels)

\* GET /history
GetHistoryRoute(caller, q, allowed) ==
  Routed(caller, "readLimiter", allowed, GetContentHistory(caller, q))

\* GET /favorites
GetFavoritesRoute(caller, allowed) ==
  Routed(caller, "readLimiter", allowed, GetFavorites(caller))

\* GET /search
GetSearchRoute(caller, q, allowed) ==
  Routed(caller, "readLimiter", allowed, SearchContent(caller, q))

\* GET /export/csv
GetExportAllRoute(caller, allowed) ==
  Routed(caller, "readLimiter", allowed, ExportAllCSV(caller))

\* GET /:id and GET /:id/export/...
GetByIdRoute(op, caller, id, allowed) ==
  Routed(caller, "readLimiter", allowed, GetContentById(op, caller, id))

\* PATCH /:id/favorite, up to the handler's read of the record
PatchFavoriteRoute(s, caller, id, allowed) ==
  Routed(caller, "readLimiter", allowed, ToggleRead(s, caller, id))

\* DELETE /:id
DeleteRoute(caller, id, allowed) ==
  Routed(caller, "deleteLimiter", allowed, DeleteContent(caller, id))

(***************************************************************************)
(* The service.                                                            *)
(***************************************************************************)
Init ==
  /\ store = {}
  /\ nextId = 1
  /\ now = 0
  /\ gen = GenIdle
  /\ tog = [s \in TogSlots |-> TogIdle]
  /\ resp = NoResp
  /\ norm = NormIdle
  /\ ana = AnaIdle
  /\ route = RouteIdle("production")

\* the response leaves the server
Send ==
  /\ resp # NoResp
  /\ resp' = NoResp
  /\ UNCHANGED <<store, nextId, now, gen, tog, norm, ana, route>>

\* the requests that come through the content router
Next ==
  \/ Send
  \/ \E caller \in Callers, topic \in TopicInputs, model \in ModelInputs,
        allowed \in BOOLEAN :
       PostGenerate(caller, topic, model, allowed)
  \/ \E outcome \in ExtOutcomes : GenReply(outcome)
  \/ \E dbUp \in BOOLEAN, t \in 0..MaxTime : GenPersist(dbUp, t)
  \/ \E op \in ReadOps, caller \in Callers, id \in IdInputs, allowed \in BOOLEAN :
       GetByIdRoute(op, caller, id, allowed)
  \/ \E caller \in Callers, id \in IdInputs, allowed \in BOOLEAN :
       DeleteRoute(caller, id, allowed)
  \/ \E caller \in Callers, q \in LimitInputs, allowed \in BOOLEAN :
       GetHistoryRoute(caller, q, allowed)
  \/ \E caller \in Callers, allowed \in BOOLEAN :
       GetFavoritesRoute(caller, allowed)
  \/ \E caller \in Callers, q \in KeywordInputs, allowed \in BOOLEAN :
       GetSearchRoute(caller, q, allowed)
  \/ \E caller \in Callers, allowed \in BOOLEAN :
       GetExportAllRoute(caller, allowed)
  \/ \E caller \in Callers, allowed \in BOOLEAN :
       GetAnalyticsRoute(caller, allowed)
  \/ \E caller \in Callers, allowed \in BOOLEAN : GetModelsRoute(caller, allowed)
  \/ \E caller \in Callers, id \in IdInputs, allowed \in BOOLEAN :
       PatchFavoriteRoute(1, caller, id, allowed)
  \/ ToggleSave(1)

Spec == Init /\ [][Next]_vars

\* the service with two toggle requests in progress at a time
ConcNext ==
  \/ Next
  \/ \E caller \in Callers, id \in IdInputs, allowed \in BOOLEAN :
       PatchFavoriteRoute(2, caller, id, allowed)
  \/ ToggleSave(2)

ConcSpec == Init /\ [][ConcNext]_vars

\* the generate requests that come through the router, under every NODE_ENV
RouteInit ==
  /\ store = {}
  /\ nextId = 1
  /\ now = 0
  /\ gen = GenIdle
  /\ tog = [s \in TogSlots |-> TogIdle]
  /\ resp = NoResp
  /\ norm = NormIdle
  /\ ana = AnaIdle
  /\ \E env \in EnvInputs : route = RouteIdle(env)

RouteNext ==
  \/ Send
  \/ \E caller \in Callers, topic \in TopicInputs, model \in ModelInputs :
       PostGenerateTest(caller, topic, model)
  \/ \E caller \in Callers, topic \in TopicInputs, model \in ModelInputs,
        allowed \in BOOLEAN :
       PostGenerate(caller, topic, model, allowed)
  \/ \E outcome \in ExtOutcomes : GenReply(outcome)
  \/ \E dbUp \in BOOLEAN, t \in 0..MaxTime : GenPersist(dbUp, t)

RouteSpec == RouteInit /\ [][RouteNext]_vars

\* the normalizer applied to every reply text within the bounds
NormInit ==
  /\ store = {}
  /\ nextId = 1
  /\ now = 0
  /\ gen = GenIdle
  /\ tog = [s \in TogSlots |-> TogIdle]
  /\ resp = NoResp
  /\ norm \in {NormInput(before, fence, body, after) :
                 before \in ProseUpTo(MaxProse), fence \in Fences,
                 body \in ObjectTexts, after \in ProseUpTo(MaxProse)}
  /\ ana = AnaIdle
  /\ route = RouteIdle("production")

NormNext == Normalize

NormSpec == NormInit /\ [][NormNext]_vars

\* the aggregator applied to every list of documents within the bounds
AnaInit ==
  /\ store = {}
  /\ nextId = 1
  /\ now = 0
  /\ gen = GenIdle
  /\ tog = [s \in TogSlots |-> TogIdle]
  /\ resp = NoResp
  /\ norm = NormIdle
  /\ \/ \E t \in ClockInputs : \E u \in ClockInputs :
          \E content \in ContentInputs(t) \cup LongInputs \cup MixInputs :
            /\ t <= u
            /\ ana = AnaInput(content, t, u)
     \/ \E t \in ClockInputs : \E e \in StoreReadErrors : ana = AnaFailing(e, t)
  /\ route = RouteIdle("production")

AnaNext == Analyze

AnaSpec == AnaInit /\ [][AnaNext]_vars

(***************************************************************************)
(* Properties.                                                             *)
(***************************************************************************)
\* the operations that return documents of the store to the caller
ReturningOps ==
  ReadOps \cup {"history", "favorites", "search", "exportAllCSV", "analytics"}

\* the documents of S that are not userId's
others(S, userId) == S \ find(S, userId)

\* C1: tenant isolation.  Whatever was done before, a response to a get-by-id,
\* history, favorites, search, export or analytics request of a caller carries
\* (and is computed from) only documents whose userId is the caller's, also
\* when the caller names the id of another owner's document.
C1_TenantIsolation ==
  resp.op \in ReturningOps =>
    \A i \in 1..Len(resp.data) : resp.data[i].userId = resp.userId

\* a history response with documents for userB while userA has documents too
C1_Witness ==
  /\ resp.op = "history"
  /\ resp.userId = "userB"
  /\ Len(resp.data) >= 1
  /\ others(store, "userB") # {}

\* C2: a delete or toggle-favorite by a caller who names a document of another
\* owner answers 404 and leaves the store, and so that document and its
\* isFavorite, as it was; the toggle does not go on to its save.
C2_ForeignWriteStep ==
  (/\ resp'.op \in {"delete", "toggle"}
   /\ resp'.userId \in Users
   /\ \E r \in others(store, resp'.userId) : r.id = resp'.id)
  => /\ resp'.status = 404
     /\ store' = store
     /\ tog' = tog

C2_ForeignWrite == [][C2_ForeignWriteStep]_vars

\* a delete aimed at a favorite of another owner was answered 404
C2_Witness ==
  /\ resp.op = "delete"
  /\ resp.status = 404
  /\ \E r \in others(store, resp.userId) : r.id = resp.id /\ r.isFavorite

\* C3: existence non-leak.  The response to a get-by-id, export, delete or
\* toggle-favorite of a caller who names another owner's document is the
\* response the same request gets from the collection of the caller's own
\* documents, where that id names nothing.
C3_ExistenceNonLeak ==
  LET mine == find(store, resp.userId) IN
  (/\ resp.userId \in Users
   /\ \E r \in others(store, resp.userId) : r.id = resp.id)
  => /\ resp.op \in ReadOps =>
          resp = getContentById(resp.op, mine, resp.userId, resp.id)
     /\ resp.op = "delete" => resp = deleteContent(mine, resp.userId, resp.id)
     /\ resp.op = "toggle" => resp = toggleFavoriteFind(mine, resp.userId, resp.id)

\* a toggle-favorite aimed at another owner's document was answered
C3_Witness ==
  /\ resp.op = "toggle"
  /\ resp.userId \in Users
  /\ \E r \in others(store, resp.userId) : r.id = resp.id

\* C4: every stored document has titles, tags, thumbnailIdeas and
\* scriptOutline that are arrays of length >= 1 and a description that is a
\* string with a character other than whitespace.
C4_StoredContentValid ==
  \A r \in store :
    /\ \A f \in {"titles", "tags", "thumbnailIdeas", "scriptOutline"} :
         r[f].kind = "array" /\ Len(r[f].elems) >= 1
    /\ r.description.kind = "string"
    /\ \E i \in 1..Len(r.description.elems) : r.description.elems[i] # "WS"

\* two documents are stored
C4_Witness == Cardinality(store) = 2

\* a generate request that ends in the controller with 400, before any call to
\* the external service and without a change of the store
RejectedEarly ==
  /\ resp'.op = "generate"
  /\ resp'.status = 400
  /\ resp'.calls = 0
  /\ gen' = GenIdle
  /\ store' = store

\* C5 as claimed: a generate request of an authenticated caller whose model
\* field is supplied (whatever its value) and is the id of no registry entry is
\* answered 400 with no call to the external service and no document stored.
C5_SuppliedUnknownModelStep ==
  \A caller \in Users, topic \in TopicInputs, model \in ModelInputs :
    (/\ generateContent(caller, topic, model)
     /\ model # Undefined
     /\ ~isValidModel(ModelId(model)))
    => RejectedEarly

C5_SuppliedUnknownModel == [][C5_SuppliedUnknownModelStep]_vars

\* C5: a generate request whose model field is a non-empty string that is the
\* id of no registry entry is answered 400 before any call to the external
\* service is made: the request has caused 0 calls and no document is stored.
\* (An empty model string counts as no model: the default is used.)
C5_UnknownModelStep ==
  \A caller \in Callers, topic \in TopicInputs, model \in ModelInputs :
    (/\ generateContent(caller, topic, model)
     /\ model.kind = "string"
     /\ model.elems # <<>>
     /\ \A i \in 1..Len(AVAILABLE_MODELS) : AVAILABLE_MODELS[i].id # model.elems[1])
    => RejectedEarly

C5_UnknownModel == [][C5_UnknownModelStep]_vars

\* a generate request was answered 400 for its model
C5_Witness ==
  /\ resp.op = "generate"
  /\ resp.status = 400
  /\ resp.error = "Invalid AI model"
  /\ resp.calls = 0

C6_SingleFallbackStep ==
  /\ gen'.calls <= 2
  /\ resp'.calls <= 2
  /\ \A outcome \in ExtOutcomes :
       (GenReply(outcome) /\ gen'.calls > gen.calls)
       => /\ gen.calls = 1
          /\ gen'.calls = 2
          /\ outcome.kind = "error"
          /\ \/ "response_format" \in outcome.err.words
             \/ outcome.err.code = "invalid_request_error"

StagesAfter(pc) ==
  CASE pc = "idle" -> {"idle", "call1"}
    [] pc = "call1" -> {"call2", "save", "idle"}
    [] pc = "call2" -> {"save", "idle"}
    [] pc = "save" -> {"idle"}

\* C7: generate runs validate-request, resolve-model, call-external-model,
\* normalize, persist, return in this order: the external service is called
\* only for a validated topic and a resolved registry model, a document is
\* persisted only from a normalized reply and only by the step that returns
\* 201; a failure at any stage ends the request, so a generate that ends in
\* an error leaves the store as it was.
C7_StagesStep ==
  /\ gen'.pc \in StagesAfter(gen.pc) \cup {gen.pc}
  /\ (gen.pc = "idle" /\ gen'.pc = "call1")
     => /\ gen'.topic # <<>>
        /\ Head(gen'.topic) # "WS"
        /\ \E i \in 1..Len(AVAILABLE_MODELS) : AVAILABLE_MODELS[i].id = gen'.model
        /\ gen'.userId \in Users
  /\ gen'.pc = "save" => gen'.content.ok
  /\ (resp'.op = "generate" /\ resp'.status >= 400)
     => store' = store /\ nextId' = nextId /\ gen'.pc = "idle"
  /\ nextId' # nextId
     => /\ gen.pc = "save"
        /\ resp'.op = "generate"
        /\ resp'.status = 201

C7_Stages == [][C7_StagesStep]_vars

\* a generate request failed after its external call, with documents stored
C7_Witness ==
  /\ resp.op = "generate"
  /\ resp.status >= 400
  /\ resp.calls >= 1
  /\ store # {}

\* C8: a successful toggle-favorite of a document by its owner, the document
\* not touched between the toggle's read and its save, returns and stores the
\* document with the negation of its isFavorite and changes nothing else; and
\* for every document of the store, toggling it changes the store and toggling
\* it once more gives the store back.
C8_ToggleStep ==
  /\ \A s \in TogSlots :
       (ToggleSave(s) /\ resp'.status = 200)
       => \A r \in store :
            (r.id = tog[s].id /\ r.isFavorite = tog[s].isFavorite)
            => /\ resp'.data = <<[r EXCEPT !.isFavorite = ~r.isFavorite]>>
               /\ store' = (store \ {r}) \cup {resp'.data[1]}
  /\ \A r \in store' :
       LET once == toggleFavorite(store', r.id, r.userId) IN
       /\ once = (store' \ {r}) \cup {[r EXCEPT !.isFavorite = ~r.isFavorite]}
       /\ toggleFavorite(once, r.id, r.userId) = store'

C8_Toggle == [][C8_ToggleStep]_vars

\* a toggle has just put a document's isFavorite back to false
C8_Witness ==
  /\ resp.op = "toggle"
  /\ resp.status = 200
  /\ ~resp.data[1].isFavorite

\* the id of the registry entry marked as the default
DefaultEntryId ==
  AVAILABLE_MODELS[CHOOSE i \in 1..Len(AVAILABLE_MODELS) : AVAILABLE_MODELS[i].isDefault].id

\* the document of userId that was stored last
newest(S, userId) ==
  CHOOSE r \in find(S, userId) : \A q \in find(S, userId) : q.id <= r.id

\* C9 as claimed: a generate request with a non-empty topic and no model is
\* taken on with the topic as supplied and the default model; once its reply
\* is normalized exactly one document is added for it, with the caller as
\* owner, that topic, that model and isFavorite false; and history with
\* limit=1 for an owner returns exactly the document stored last for them.
C9_GenerateThenHistoryAsClaimedStep ==
  /\ \A caller \in Users, topic \in TopicInputs :
       (/\ generateContent(caller, topic, Undefined)
        /\ topic.kind = "string"
        /\ topic.elems # <<>>)
       => /\ gen'.pc = "call1"
          /\ gen'.userId = caller
          /\ gen'.topic = topic.elems
          /\ gen'.model = DefaultEntryId
  /\ (gen.pc = "save" /\ gen'.pc # "save")
     => \E r \in store' \ store :
          /\ store' = store \cup {r}
          /\ r.userId = gen.userId
          /\ r.topic = gen.topic
          /\ r.aiModel = gen.model
          /\ r.isFavorite = FALSE
  /\ \A u \in Users :
       find(store', u) # {}
       => getUserContent(store', u, parseLimit("1")) = {<<newest(store', u)>>}

C9_GenerateThenHistoryStep ==
  /\ \A caller \in Users, topic \in TopicInputs :
       (/\ generateContent(caller, topic, Undefined)
        /\ topic.kind = "string"
        /\ \E i \in 1..Len(topic.elems) : topic.elems[i] # "WS")
       => /\ gen'.pc = "call1"
          /\ gen'.userId = caller
          /\ gen'.topic = Trim(topic.elems)
          /\ gen'.model = DefaultEntryId
  /\ (gen.pc = "save" /\ resp'.status = 201)
     => \E r \in store' \ store :
          /\ store' = store \cup {r}
          /\ resp'.data = <<r>>
          /\ r.userId = gen.userId
          /\ r.topic = gen.topic
          /\ r.aiModel = gen.model
          /\ r.isFavorite = FALSE
  /\ \A u \in Users :
       (/\ find(store', u) # {}
        /\ \A q \in find(store', u) \ {newest(store', u)} :
             q.createdAt # newest(store', u).createdAt)
       => getUserContent(store', u, parseLimit("1")) = {<<newest(store', u)>>}

ValidFields ==
  [titles |-> MemberOf["tOk"].val, description |-> MemberOf["dOk"].val,
   tags |-> MemberOf["gOk"].val, thumbnailIdeas |-> MemberOf["hOk"].val,
   scriptOutline |-> MemberOf["sOk"].val]

CarriesValidFields(body) ==
  \A i \in 1..Len(requiredFields) :
    JsonGet(body, requiredFields[i]) = ValidFields[requiredFields[i]]

Recovered(result) ==
  /\ result.ok
  /\ \A i \in 1..Len(requiredFields) :
       result[requiredFields[i]] = ValidFields[requiredFields[i]]

\* C10 as claimed: for a JSON object with valid values for the five fields,
\* placed in any prose and optionally in a code fence, the normalizer returns
\* those five values.
C10_RoundTripAnyProse ==
  (norm.done /\ CarriesValidFields(norm.body)) => Recovered(norm.result)

\* C10: for a JSON object with valid values for the five fields, placed in
\* prose that has no { before the object and no } after it and optionally in
\* a code fence (with or without the json tag), the normalizer returns those
\* five values.
C10_RoundTrip ==
  (/\ norm.done
   /\ CarriesValidFields(norm.body)
   /\ \A i \in 1..Len(norm.before) : norm.before[i] # "LB"
   /\ \A i \in 1..Len(norm.after) : norm.after[i] # "RB")
  => Recovered(norm.result)

\* an object in a fence with prose on both sides was recovered
C10_Witness ==
  /\ norm.done
  /\ norm.before # <<>>
  /\ norm.after # <<>>
  /\ \E i \in 1..Len(norm.text) : norm.text[i] = "FENCE"
  /\ Recovered(norm.result)

\* the reply's object is what the normalizer parsed: no brace of the prose
\* widens the region it takes
ObjectParsed ==
  /\ norm.done
  /\ \A i \in 1..Len(norm.before) : norm.before[i] # "LB"
  /\ \A i \in 1..Len(norm.after) : norm.after[i] # "RB"

\* the object has a member with this key
HasKey(body, key) ==
  \E i \in 1..Len(body) : body[i] \in MemberTokens /\ MemberOf[body[i]].key = key

\* the required keys the object has no member for, in the order of requiredFields
AbsentKeys(body) == SelectSeq(requiredFields, LAMBDA f : ~HasKey(body, f))

\* the fields of the object whose value is not what the contract asks for
Offending(body) ==
  {f \in {"titles", "tags", "thumbnailIdeas", "scriptOutline"} :
     LET v == JsonGet(body, f) IN v.kind # "array" \/ Len(v.elems) < 1}
  \cup
  {f \in {"description"} :
     LET v == JsonGet(body, f) IN
     v.kind # "string" \/ \A i \in 1..Len(v.elems) : v.elems[i] = "WS"}

\* C11: when the parsed object lacks required keys, the normalizer fails with
\* the missing-fields error and the keys it lists are exactly the absent ones.
C11_ListsAbsentKeys ==
  (ObjectParsed /\ AbsentKeys(norm.body) # <<>>)
  => /\ ~norm.result.ok
     /\ norm.result.error = "missing required fields"
     /\ norm.result.fields = AbsentKeys(norm.body)

\* C12: when the parsed object has all five keys but a field is not a
\* non-empty array, or description is not a non-blank string (the empty
\* string included), the normalizer fails with the field-type error naming an
\* offending field.
C12_NamesOffendingField ==
  (ObjectParsed /\ AbsentKeys(norm.body) = <<>> /\ Offending(norm.body) # {})
  => /\ ~norm.result.ok
     /\ norm.result.error \in
          {"must include an array", "must include a description string"}
     /\ Len(norm.result.fields) = 1
     /\ norm.result.fields[1] \in Offending(norm.body)


(***************************************************************************)
(* Analytics.                                                              *)
(***************************************************************************)
\* C13: for an owner with no records the summary is the zero value: both
\* totals are 0, the five sequences are empty and the four usage figures
\* are 0.
C13_EmptySummary ==
  (ana.done /\ ana.content = <<>>)
  => /\ ana.summary.totalContent = 0
     /\ ana.summary.totalFavorites = 0
     /\ ana.summary.contentByModel = <<>>
     /\ ana.summary.topTopics = <<>>
     /\ ana.summary.generationTimeline = <<>>
     /\ ana.summary.recentActivity = <<>>
     /\ ana.summary.tagCloud = <<>>
     /\ ana.summary.usageStats.thisWeek = 0
     /\ ana.summary.usageStats.thisMonth = 0
     /\ ana.summary.usageStats.allTime = 0
     /\ ana.summary.usageStats.averagePerWeek = 0

C13_Witness == ana.done /\ ana.content = <<>> /\ ana.now = 756


\* C14: for a non-empty record set the timeline has exactly 30 entries, the
\* 30 consecutive UTC days ending today in ascending order, each with the
\* number of records created on that day.
C14_ThirtyDays ==
  (ana.done /\ ana.content # <<>>)
  => LET timeline == ana.summary.generationTimeline
         today == DateOf(ana.now)
     IN /\ Len(timeline) = 30
        /\ \A k \in 1..Len(timeline) :
             /\ timeline[k].date = today - 30 + k
             /\ timeline[k].count =
                  Cardinality({i \in 1..Len(ana.content) :
                                 DateOf(ana.content[i].createdAt) = timeline[k].date})


\* the position of the first document of ana.content with this model
FirstWithModel(modelId) ==
  Min({i \in 1..Len(ana.content) : ana.content[i].aiModel = modelId})

\* C15: for a non-empty record set contentByModel has one entry per distinct
\* aiModel, with the number of records of that model and that number as a
\* percentage of all records rounded to the nearest integer (a half upwards,
\* as Math.round rounds), entry by entry;
\* the entries are in descending order of count, equal counts in the order in
\* which the models are first met.
C15_ContentByModel ==
  (ana.done /\ ana.content # <<>>)
  => LET byModel == ana.summary.contentByModel
         total == Len(ana.content)
         models == {ana.content[i].aiModel : i \in 1..total}
     IN /\ Len(byModel) = Cardinality(models)
        /\ {byModel[k].modelId : k \in 1..Len(byModel)} = models
        /\ \A k \in 1..Len(byModel) :
             /\ byModel[k].count =
                  Cardinality({i \in 1..total :
                                 ana.content[i].aiModel = byModel[k].modelId})
             /\ 2 * total * byModel[k].percentage - total <= 200 * byModel[k].count
             /\ 200 * byModel[k].count < 2 * total * byModel[k].percentage + total
        /\ \A k \in 1..(Len(byModel) - 1) :
             \/ byModel[k].count > byModel[k + 1].count
             \/ /\ byModel[k].count = byModel[k + 1].count
                /\ FirstWithModel(byModel[k].modelId)
                     < FirstWithModel(byModel[k + 1].modelId)


\* a tag in lower case without one leading '#'
Folded(tag) ==
  LET l == [i \in 1..Len(tag) |-> lowerChar(tag[i])] IN
  IF Len(l) > 0 /\ l[1] = "#" THEN SubSeq(l, 2, Len(l)) ELSE l

\* the tags of all records of ana.content, folded, in the order of the records
FoldedTags ==
  LET all == AllTags(ana.content) IN [i \in 1..Len(all) |-> Folded(all[i])]

TagCount(tag) == Cardinality({i \in 1..Len(FoldedTags) : FoldedTags[i] = tag})

FirstSeen(tag) == Min({i \in 1..Len(FoldedTags) : FoldedTags[i] = tag})

\* tag a comes before tag b in the cloud
TagBefore(a, b) ==
  \/ TagCount(a) > TagCount(b)
  \/ TagCount(a) = TagCount(b) /\ FirstSeen(a) < FirstSeen(b)

\* C16: the tag cloud has one entry per tag after lower-casing and removal of
\* one leading '#', with the number of occurrences of that folded tag over all
\* records; the entries are in descending order of count, equal counts in
\* first-seen order, and they are the first 20 of that order.
C16_TagCloud ==
  ana.done
  => LET cloud == ana.summary.tagCloud
         distinct == {FoldedTags[i] : i \in 1..Len(FoldedTags)}
         shown == {cloud[k].tag : k \in 1..Len(cloud)}
     IN /\ Len(cloud) = Min({20, Cardinality(distinct)})
        /\ Cardinality(shown) = Len(cloud)
        /\ shown \subseteq distinct
        /\ \A k \in 1..Len(cloud) : cloud[k].count = TagCount(cloud[k].tag)
        /\ \A k \in 1..(Len(cloud) - 1) : TagBefore(cloud[k].tag, cloud[k + 1].tag)
        /\ \A a \in shown : \A b \in distinct \ shown : TagBefore(a, b)

\* "#AI", "ai" and "AI" are one entry with count 3, and more than 20 tags
\* differ after folding
C16_Witness ==
  /\ ana.done
  /\ Cardinality({FoldedTags[i] : i \in 1..Len(FoldedTags)}) > 20
  /\ Len(ana.summary.tagCloud) = 20
  /\ ana.summary.tagCloud[1] = [tag |-> <<"a", "i">>, count |-> 3]
  /\ \E i \in 1..Len(ana.content) :
       ana.content[i].tags.elems = << <<"A", "I">>, <<"#", "#", "a", "i">>,
                                      <<"T", "e", "c", "h">> >>


(***************************************************************************)
(* The life of a record.                                                   *)
(***************************************************************************)
Ids(S) == {r.id : r \in S}

\* the operations that only read
ReadOnlyOps == ReturningOps \cup {"models"}

\* the step answers a request of this operation with this status
Answers(op, status) ==
  resp = NoResp /\ resp' # NoResp /\ resp'.op = op /\ resp'.status = status

C17_LifecycleStep ==
  /\ Ids(store') # Ids(store)
     => \/ Answers("generate", 201)
        \/ Answers("delete", 200)
  /\ Answers("generate", 201)
     => \E r \in store' : r.id \notin Ids(store) /\ store' = store \cup {r}
  /\ Answers("delete", 200)
     => \E r \in store : /\ r.id = resp'.id
                         /\ r.userId = resp'.userId
                         /\ store' = store \ {r}
  /\ (resp = NoResp /\ resp' # NoResp /\ resp'.op \in ReadOnlyOps)
     => store' = store

\* C17: the set of stored records changes only in a step that answers a
\* generate request 201, which adds exactly one record, and in a step that
\* answers a delete request 200, which removes exactly the record the caller
\* named and owns; a step that answers a history, get, search, favorites,
\* models, analytics or export request leaves the store as it was.
C17_Lifecycle == [][C17_LifecycleStep]_vars

\* a delete has removed one of the two records generated before
C17_Witness ==
  /\ resp.op = "delete"
  /\ resp.status = 200
  /\ nextId = 3
  /\ Cardinality(store) = 1


\* a and b differ in nothing but isFavorite
SameButFavorite(a, b) == [a EXCEPT !.isFavorite = b.isFavorite] = b

C18_ImmutableStep ==
  /\ \A r \in store : \A q \in store' : r.id = q.id => SameButFavorite(r, q)
  /\ Answers("toggle", 200)
     => \E r \in store :
          /\ r.id = resp'.id
          /\ r.userId = resp'.userId
          /\ store' = (store \ {r}) \cup {[r EXCEPT !.isFavorite = ~r.isFavorite]}
  /\ (\E r \in store : \E q \in store' : r.id = q.id /\ r # q)
     => Answers("toggle", 200)

\* C18: a stored record keeps its id, owner, topic, aiModel, titles,
\* description, tags, thumbnailIdeas and scriptOutline for as long as it is
\* stored; a toggle answered 200 changes the isFavorite flag of the record it
\* names and nothing else in the store, and no other step changes a record.
C18_Immutable == [][C18_ImmutableStep]_vars

\* a toggle has set the flag of one of two records and left the other's off
C18_Witness ==
  /\ resp.op = "toggle"
  /\ resp.status = 200
  /\ Cardinality(store) = 2
  /\ \E r \in store : r.id = resp.id /\ r.isFavorite
  /\ \E r \in store : r.id # resp.id /\ ~r.isFavorite


(***************************************************************************)
(* Search.                                                                 *)
(***************************************************************************)
\* the keyword occurs, whatever the case of its letters, in one of the six
\* content fields of r
Occurs(keyword, r) ==
  \/ regexTest(keyword, r.topic)
  \/ pathMatches(keyword, r.titles)
  \/ pathMatches(keyword, r.description)
  \/ pathMatches(keyword, r.tags)
  \/ pathMatches(keyword, r.thumbnailIdeas)
  \/ pathMatches(keyword, r.scriptOutline)

C19_SearchAllFieldsStep ==
  \A caller \in Users : \A q \in KeywordInputs :
    (SearchContent(caller, q) /\ resp'.status = 200)
    => LET found == resp'.data IN
       /\ {found[i] : i \in 1..Len(found)}
            = {r \in store : r.userId = caller /\ Occurs(Trim(q.elems), r)}
       /\ \A i \in 1..Len(found) : \A j \in 1..Len(found) :
            i < j => found[i].createdAt >= found[j].createdAt

\* C19: a search answered 200 returns exactly the caller's records in which
\* the keyword occurs, case-insensitively, in topic, titles, description,
\* tags, thumbnailIdeas or scriptOutline, newest first.
C19_SearchAllFields == [][C19_SearchAllFieldsStep]_vars


\* the topics of the records of ana.content in lower case, in the order of the
\* records
LowerTopics == [i \in 1..Len(ana.content) |-> lower(ana.content[i].topic)]

\* the records of ana.content with this topic
TopicGroup(topic) == {i \in 1..Len(ana.content) : LowerTopics[i] = topic}

\* topic a comes before topic b in topTopics
TopicBefore(a, b) ==
  \/ Cardinality(TopicGroup(a)) > Cardinality(TopicGroup(b))
  \/ /\ Cardinality(TopicGroup(a)) = Cardinality(TopicGroup(b))
     /\ Min(TopicGroup(a)) < Min(TopicGroup(b))

\* C21: topTopics has one entry per topic in lower case, with the number of
\* records of that topic and the latest createdAt among them; the entries are
\* in descending order of count, equal counts in first-seen order, and they
\* are the first 10 of that order.
C21_TopTopics ==
  (ana.done /\ ana.content # <<>>)
  => LET top == ana.summary.topTopics
         distinct == {LowerTopics[i] : i \in 1..Len(LowerTopics)}
         shown == {top[k].topic : k \in 1..Len(top)}
     IN /\ Len(top) = Min({10, Cardinality(distinct)})
        /\ Cardinality(shown) = Len(top)
        /\ shown \subseteq distinct
        /\ \A k \in 1..Len(top) :
             /\ top[k].count = Cardinality(TopicGroup(top[k].topic))
             /\ \E i \in TopicGroup(top[k].topic) :
                  top[k].lastGenerated = ana.content[i].createdAt
             /\ \A i \in TopicGroup(top[k].topic) :
                  top[k].lastGenerated >= ana.content[i].createdAt
        /\ \A k \in 1..(Len(top) - 1) : TopicBefore(top[k].topic, top[k + 1].topic)
        /\ \A a \in shown : \A b \in distinct \ shown : TopicBefore(a, b)

\* 11 topics differ; the topic written in two cases leads with count 2 and the
\* createdAt of its newer record, and one topic is cut
C21_Witness ==
  /\ ana.done
  /\ Cardinality({LowerTopics[i] : i \in 1..Len(LowerTopics)}) = 11
  /\ Len(ana.summary.topTopics) = 10
  /\ ana.summary.topTopics[1].count = 2
  /\ ana.summary.topTopics[1].lastGenerated = 42
  /\ ana.summary.topTopics[2].count = 1


\* the records of ana.content created in the last `days` days before the
\* clock read of calculateUsageStats
CreatedWithin(days) ==
  {i \in 1..Len(ana.content) : ana.content[i].createdAt >= ana.later - days * 24}

\* the least number of whole weeks (of 168 hours) that cover `hours`, at least 1
WeeksCovering(hours) ==
  Min({w \in 1..(hours + 1) : w * 168 >= hours})

\* C22: for a non-empty record set thisWeek and thisMonth are the numbers of
\* records created in the last 7 and 30 days, allTime is the number of
\* records, and averagePerWeek (in tenths) is allTime divided by the number of
\* weeks since the oldest record, rounded up to whole weeks and at least 1,
\* rounded to one decimal.
C22_UsageStats ==
  (ana.done /\ ana.content # <<>>)
  => LET stats == ana.summary.usageStats
         earliest == Min({ana.content[i].createdAt : i \in 1..Len(ana.content)})
         weeks == WeeksCovering(ana.later - earliest)
     IN /\ stats.thisWeek = Cardinality(CreatedWithin(7))
        /\ stats.thisMonth = Cardinality(CreatedWithin(30))
        /\ stats.allTime = Len(ana.content)
        /\ 2 * weeks * stats.averagePerWeek - weeks <= 20 * stats.allTime
        /\ 20 * stats.allTime < 2 * weeks * stats.averagePerWeek + weeks

\* three records over five weeks, two of them within 30 days and one within 7:
\* 0.6 a week
C22_Witness ==
  /\ ana.done
  /\ ana.later = 756
  /\ Len(ana.content) = 3
  /\ ana.content[3].createdAt = 30
  /\ ana.summary.usageStats.thisWeek = 1
  /\ ana.summary.usageStats.thisMonth = 2
  /\ ana.summary.usageStats.averagePerWeek = 6


\* C23 as stated: when the read of the owner's records fails, generateUserAnalytics
\* throws the store's error itself, with its name, code and message.
C23_PropagatesUnmodified ==
  (ana.done /\ ana.readError # NoErr) => ana.thrown = ana.readError

\* C23: when the read of the owner's records fails, generateUserAnalytics
\* throws a new plain error with the message 'Failed to generate analytics',
\* whatever the store's error was, and the error handler answers 500
\* 'Internal server error'; when the read succeeds it throws nothing.
C23_Wrapped ==
  ana.done
  => IF ana.readError # NoErr
     THEN /\ ana.thrown = Err("Error", 0, "", {"Failed to generate analytics"})
          /\ errorHandler(ana.thrown).status = 500
          /\ errorHandler(ana.thrown).error = "Internal server error"
     ELSE ana.thrown = NoErr

C23_Witness ==
  /\ ana.done
  /\ ana.readError.name = "MongoServerError"
  /\ ana.thrown.name = "Error"


(***************************************************************************)
(* History.                                                                *)
(***************************************************************************)
\* the greatest number of records limit=q may return: the integer sent, 10
\* when none is sent
LimitSent(q) ==
  CASE q = "0" -> 0
    [] q = "1" -> 1
    [] q = "2" -> 2
    [] OTHER -> 10

C24_HistoryLimitStep ==
  \A caller \in Users : \A q \in LimitInputs :
    (GetContentHistory(caller, q) /\ resp'.status = 200)
    => LET got == resp'.data
           mine == {r \in store : r.userId = caller}
           shown == {got[i] : i \in 1..Len(got)}
       IN /\ Len(got) = Min({LimitSent(q), Cardinality(mine)})
          /\ Cardinality(shown) = Len(got)
          /\ shown \subseteq mine
          /\ \A i \in 1..Len(got) : \A j \in 1..Len(got) :
               i < j => got[i].createdAt >= got[j].createdAt
          /\ \A a \in shown : \A b \in mine \ shown : a.createdAt >= b.createdAt

\* C24: history with limit=N, N an integer >= 0, returns the caller's N most
\* recently created records (all of them when there are fewer), newest first;
\* without a limit it returns at most 10.
C24_HistoryLimit == [][C24_HistoryLimitStep]_vars


(***************************************************************************)
(* Ids that name no record of the caller.                                  *)
(***************************************************************************)
\* a get, delete or toggle request of caller for id is taken
ByIdStep(caller, id) ==
  \/ GetContentById("get", caller, id)
  \/ DeleteContent(caller, id)
  \/ ToggleRead(1, caller, id)

ByIdOps == {"get", "delete", "toggle"}

C25_AlwaysNotFoundStep ==
  /\ \A caller \in Users : \A id \in IdInputs :
       (ByIdStep(caller, id) /\ findOne(store, id, caller) = {})
       => resp'.status = 404
  /\ (resp' # NoResp /\ resp'.op \in ByIdOps) => resp'.status \in {200, 401, 404}

C25_NotFoundStep ==
  /\ \A caller \in Users : \A id \in IdInputs :
       (ByIdStep(caller, id) /\ findOne(store, id, caller) = {})
       => /\ IF id = BadId
             THEN resp'.status = 400 /\ resp'.error = "Invalid ID format"
             ELSE resp'.status = 404
          /\ resp'.data = <<>>
          /\ store' = store
  /\ (resp' # NoResp /\ resp'.op \in ByIdOps)
     => /\ resp'.status \in {200, 400, 401, 404, 500}
        /\ resp'.status = 500
           => resp'.op = "toggle" /\ (\A r \in store : r.id # resp'.id)

Overtaken(s) ==
  /\ tog[s].pc = "read"
  /\ \E r \in store : r.id = tog[s].id /\ r.isFavorite # tog[s].isFavorite

C26_NoLostToggleStep ==
  \A s \in TogSlots :
    (Overtaken(s) /\ ToggleSave(s) /\ resp'.status = 200)
    => \E r \in store' : r.id = tog[s].id /\ r.isFavorite = tog[s].isFavorite

\* C26: when two toggles of the same record overlap (one saves between the
\* read and the save of the other) and both are answered 200, the flag ends at
\* the value it had when they read it: the second save completes the pair of
\* negations.
C26_NoLostToggle == [][C26_NoLostToggleStep]_vars


\* the ids the store has assigned to records that are no longer stored
Deleted(S, next) == {id \in 1..(next - 1) : id \notin Ids(S)}

C27_NeverReappearsStep ==
  /\ Answers("delete", 200) => resp'.id \in Deleted(store', nextId')
  /\ Deleted(store, nextId) \subseteq Deleted(store', nextId')
  /\ (resp' # NoResp /\ resp'.op \in ReturningOps)
     => \A i \in 1..Len(resp'.data) : resp'.data[i].id \notin Deleted(store', nextId')
  /\ \A s \in TogSlots :
       (ToggleSave(s) /\ tog[s].id \in Deleted(store, nextId))
       => resp'.status = 500 /\ store' = store

\* C27: a delete answered 200 removes the record, the id of a removed record
\* is never stored again, and no get, history, search, favorites, analytics or
\* export response carries a removed record; the save of a toggle that had
\* read the record before it was removed fails and stores nothing.
C27_NeverReappears == [][C27_NeverReappearsStep]_vars

\* the save of a toggle has failed because the record it had read was deleted
C27_Witness ==
  /\ resp.op = "toggle"
  /\ resp.status = 500
  /\ resp.id \in Deleted(store, nextId)


(***************************************************************************)
(* Failures inside the AI service.                                         *)
(***************************************************************************)
C28_AiFailuresStep ==
  \A outcome \in ExtOutcomes :
    (GenReply(outcome) /\ resp' # NoResp)
    => /\ resp'.op = "generate"
       /\ resp'.status = 500
       /\ resp'.error \in {"AI response processing error", "Internal server error"}
       /\ resp'.data = <<>>
       /\ store' = store

\* C28: when a chat completion call settles and the generate request ends
\* there (the call failed in whatever way and is not retried, the completion
\* is empty, or the normalizer rejects the text), the answer is 500: never
\* the 429, 400 or 503 the error handler has for errors of the AI client.
C28_AiFailures == [][C28_AiFailuresStep]_vars

\* a request that ended after its first call, which failed or returned an
\* empty completion, was answered 500
C28_Witness ==
  /\ resp.op = "generate"
  /\ resp.status = 500
  /\ resp.error = "Internal server error"
  /\ resp.calls = 1
  /\ resp.userId = "userB"


\* the sum of the counts of the entries of a timeline
RECURSIVE SumCounts(_)
SumCounts(timeline) ==
  IF timeline = <<>> THEN 0 ELSE Head(timeline).count + SumCounts(Tail(timeline))

\* C29: for a non-empty record set, when calculateTimeline and
\* calculateUsageStats read the same time from the clock, the counts of the
\* timeline entries add up to usageStats.thisMonth.
C29_TimelineSum ==
  (ana.done /\ ana.content # <<>> /\ ana.now = ana.later)
  => SumCounts(ana.summary.generationTimeline) = ana.summary.usageStats.thisMonth

\* one clock value, two records within the 30 days, one of them on the day
\* before the first day of the timeline, and one record older than that
C29_Witness ==
  /\ ana.done
  /\ ana.now = ana.later
  /\ Len(ana.content) = 3
  /\ Len(ana.summary.generationTimeline) = 31
  /\ ana.summary.usageStats.thisMonth = 2


(***************************************************************************)
(* The routes to the generate handler.                                     *)
(***************************************************************************)
C30_TestRouteStep ==
  /\ gen'.pc # "idle" => route'.path # ""
  /\ route'.env # "development"
     => /\ route'.path \in {"", "/generate"}
        /\ gen'.pc # "idle" => gen'.userId \in Users
        /\ \A r \in store' : r.userId \in Users
  /\ route'.path = "/generate"
     => route'.passed = {"authMiddleware", "aiGenerationLimiter"}
  /\ route'.path = "/generate/test"
     => /\ route'.env = "development"
        /\ route'.passed = {}
        /\ gen'.pc # "idle" => gen'.userId = "test-user-123"
        /\ \A r \in store' \ store : r.userId = "test-user-123"

\* C30: unless NODE_ENV is 'development', a request comes to the generate
\* handler only by POST /generate, past authMiddleware and
\* aiGenerationLimiter, and with the identity of a user; under 'development'
\* POST /generate/test comes to it past neither, and every record created
\* for such a request has the owner 'test-user-123'.
C30_TestRoute == [][C30_TestRouteStep]_vars

\* a record was created through the test route
C30_Witness ==
  /\ route.env = "development"
  /\ route.path = "/generate/test"
  /\ resp.op = "generate"
  /\ resp.status = 201
  /\ \E r \in store : r.userId = "test-user-123"

====
